---- MODULE Spec2Model ----
(***************************************************************************)
(* Model of the Sunsynk API client (clients/sunsynk/client.py) and of the  *)
(* accessors built on it: construction with retried password-grant         *)
(* authentication, the ensure_token wrapper with its per-instance lock,    *)
(* the refresh-token grant and the resource calls that carry the bearer    *)
(* token.                                                                  *)
(*                                                                         *)
(* Time is counted in whole seconds (clock); the clock may advance between *)
(* any two steps.  The identity provider is an external collaborator: its  *)
(* n-th token-bearing response carries access_token n and refresh_token n, *)
(* so that a token names the response it came from.                        *)
(*                                                                         *)
(* Five specifications share the module.  Spec follows the token state of  *)
(* one client instance used by several threads, and FairSpec is Spec with  *)
(* the progress the code guarantees.  RequestSpec follows one network      *)
(* call, of any accessor of the package, from its first HTTP attempt to    *)
(* the value or exception its caller gets.  WorkflowSpec follows one run   *)
(* of a script of workflows/ over its rows or plants.  CallSpec applies    *)
(* the helper functions of the scripts and of the messaging clients to     *)
(* inputs drawn from bounded sets.                                         *)
(***************************************************************************)
EXTENDS Integers, Sequences, FiniteSets, TLC

\* ---------------------------------------------------------------- bounds
NThreads == 2
MaxCalls == 1
MaxClock == 2
MaxExpiresIn == 11
MaxRows == 3
\* PAGE_SIZE and CHUNK_SIZE (1000 and 500 in the scripts) scaled to MaxRows
PAGE_SIZE == 2
CHUNK_SIZE == 2
\* phone numbers: leading characters and digits after them
MaxPrefix == 3
MaxFill == 10
\* largest `retries` handed to _retry_call
MaxRetryArg == 5

\* ------------------------------------------------------ program constants
DEFAULT_TIMEOUT == 10
AUTH_RETRIES == 5
REQUEST_RETRIES == 3
STATUS_FORCELIST == {500, 502, 503, 504}
SKEW == 10
BACKOFF_FACTOR_MS == 500
\* update_plant_power.py:35, seconds
REAUTH_INTERVAL == 25 * 60

Threads == 1..NThreads
NoThread == 0

\* expires_in values the identity provider may return: the skew and above
\* (a response without expires_in stands for the values below the skew)
ExpiresInVals == SKEW..MaxExpiresIn

TokenFields == {"access_token", "refresh_token", "expires_in"}

\* The accessors: SunsynkClient.list goes through _request (one wrapper),
\* SunsynkClient.energy is wrapped itself and calls the wrapped _request
\* (two wrappers), PlantAPI.list is wrapped and calls requests.get.
Accessors == {"client_list", "client_energy", "plant_list"}

VARIABLES
    ctor,           \* __init__: "auth" (POST in flight), "setR", "setE",
                    \* then "ready" or "failed"
    attempt,        \* loop variable of _authenticate_with_retry, 0 once
                    \* __init__ has returned
    backoff,        \* ms slept after the last failed attempt, 0 if none
    ctor_resp,      \* data section of the authentication response
    access_token,
    refresh_token,
    token_expiry,
    expiry_src,     \* history: the response whose expires_in set token_expiry
    lock,           \* self._lock: NoThread or the thread holding it
    clock,          \* time.time()
    issued,         \* identity provider: token-bearing responses so far
    pc,             \* per thread: position in wrapper / accessor
    depth,          \* per thread: ensure_token wrappers still to pass
    resp,           \* per thread: data section of the refresh response
    calls,          \* per thread: accessor calls finished
    pre,            \* history: TokenState when the refresh in flight began
    obs,            \* per thread: history of the accessor call in progress
    accessor,       \* the network call being followed, "none" before one
    http_pc,        \* "idle", "sent" (an HTTP attempt is out), "done"
    attempts,       \* HTTP attempts made for the call
    reply,          \* what the server did with the attempt in flight
    outcome,        \* what the call handed to its caller
    wf,             \* the workflow script that runs
    quiet,          \* update_plant_inverters: QUIET
    wf_pc,          \* position of the script, "done" / "aborted" at its end
    total,          \* rows or plants the script found
    page,           \* daily report: loop variable `page`
    idx,            \* rows or plants dealt with so far
    rows,           \* keys fetched and waiting (the page, or all_rows)
    sink,           \* keys of the rows in the table written to
    counts,         \* the counters of the script
    conflicts,      \* history: duplicate-key conflicts the sink signalled
    exit_code,      \* exit status of the process, NoExit while it runs
    wf_now,         \* update_plant_power: time.time(), in seconds
    sk_start,       \* ingest: the local sk_start
    api_born,       \* history: when the PlantAPI in use was constructed
    fetch_age,      \* history: age of the PlantAPI at the start of the
                    \* last fetch, NoAge before one
    session,        \* update_plant_power: whether `session` is set
    supabase_last_refresh,
    upsert,         \* history: the last call of upsert_inverter
    fn,             \* the helper function called on its own, "none" if none
    arg,            \* its arguments and what its environment will do
    ret             \* what it did and returned, NoRet before it has

clientVars == <<ctor, attempt, backoff, ctor_resp, access_token, refresh_token,
                token_expiry, expiry_src, lock, clock, issued, pc, depth,
                resp, calls, pre, obs>>

requestVars == <<accessor, http_pc, attempts, reply, outcome>>

\* time and sessions of update_plant_power
powerVars == <<wf_now, sk_start, api_born, fetch_age, session,
               supabase_last_refresh>>

workflowVars == <<wf, quiet, wf_pc, total, page, idx, rows, sink, counts,
                  conflicts, exit_code, powerVars, upsert>>

callVars == <<fn, arg, ret>>

\* the variables the client's own steps leave alone
outsideClient == <<requestVars, workflowVars, callVars>>

vars == <<clientVars, requestVars, workflowVars, callVars>>

tokenVars == <<access_token, refresh_token, token_expiry, expiry_src>>
ctorVars == <<ctor, attempt, backoff, ctor_resp>>
threadVars == <<pc, depth, resp, calls, pre, obs>>

\* ---------------------------------------------------------------- helpers
RECURSIVE Pow2(_)
Pow2(n) == IF n <= 0 THEN 1 ELSE 2 * Pow2(n - 1)

\* dict.get(key, default)
Get(data, key, default) == IF key \in DOMAIN data THEN data[key] ELSE default

NoData == [f \in {} |-> 0]

\* A response of the identity provider: ok is FALSE for a network failure
\* or a non-2xx status (raise_for_status raises); data is the decoded
\* "data" section, the empty dict when it is missing (`.get("data") or {}`).
FailedResponse == [ok |-> FALSE, data |-> NoData]

DataOf(shape, n, ei) ==
    [f \in shape |-> IF f = "expires_in" THEN ei ELSE n]

Responses(n) ==
    {FailedResponse} \cup
    {[ok |-> TRUE, data |-> DataOf(shape, n, ei)] :
        shape \in SUBSET TokenFields, ei \in ExpiresInVals}

TokenState == <<access_token, refresh_token, token_expiry>>
NoTokenState == <<0, 0, 0>>

\* ---------------------------------------------------------- construction
\* client.py:98
AuthExpiry(now, data) == now + Get(data, "expires_in", 0) - SKEW

\* variant of BackoffSleep: a delay that grows by BACKOFF_FACTOR per attempt
BackoffSleep_Linear(k) == BACKOFF_FACTOR_MS * k

\* client.py:77
BackoffSleep(k) == BACKOFF_FACTOR_MS * Pow2(k - 1)

\* variant of LastAttempt: a loop that runs one pass too many
LastAttempt_OneMore == AUTH_RETRIES + 1

\* client.py:67, the range of the retry loop
LastAttempt == AUTH_RETRIES

\* client.py:72-78: the except branch of _authenticate_with_retry, and the
\* raise after the loop
AuthRetry ==
    /\ backoff' = BackoffSleep(attempt)
    /\ ctor_resp' = NoData
    /\ IF attempt < LastAttempt
          THEN attempt' = attempt + 1 /\ ctor' = "auth"
          ELSE attempt' = attempt /\ ctor' = "failed"

\* client.py:92-95: the response of the password grant arrives;
\* access_token is assigned
AuthRespond(r) ==
    /\ ctor = "auth"
    /\ IF ~r.ok \/ "access_token" \notin DOMAIN r.data
          THEN /\ AuthRetry
               /\ UNCHANGED <<tokenVars, issued>>
          ELSE /\ access_token' = r.data["access_token"]
               /\ issued' = issued + 1
               /\ ctor_resp' = r.data
               /\ ctor' = "setR"
               /\ UNCHANGED <<attempt, backoff, refresh_token, token_expiry,
                              expiry_src>>
    /\ UNCHANGED <<lock, clock, threadVars>>
    /\ UNCHANGED outsideClient

\* client.py:96
AuthSetRefresh ==
    /\ ctor = "setR"
    /\ IF "refresh_token" \notin DOMAIN ctor_resp
          THEN /\ AuthRetry
               /\ UNCHANGED refresh_token
          ELSE /\ refresh_token' = ctor_resp["refresh_token"]
               /\ ctor' = "setE"
               /\ UNCHANGED <<attempt, backoff, ctor_resp>>
    /\ UNCHANGED <<access_token, token_expiry, expiry_src, lock, clock,
                   issued, threadVars>>
    /\ UNCHANGED outsideClient

\* client.py:98 and the return of client.py:71
AuthSetExpiry ==
    /\ ctor = "setE"
    /\ token_expiry' = AuthExpiry(clock, ctor_resp)
    /\ expiry_src' = ctor_resp["access_token"]
    /\ ctor' = "ready"
    /\ attempt' = 0
    /\ backoff' = 0
    /\ ctor_resp' = NoData
    /\ UNCHANGED <<access_token, refresh_token, lock, clock, issued,
                   threadVars>>
    /\ UNCHANGED outsideClient

\* ------------------------------------------------------------------ clock
\* history kept of a call in progress: did the token expire again after a
\* refresh that completed while the call was in progress
Lapse(o, now, expiry) ==
    IF o.fresh = "yes" /\ now >= expiry THEN [o EXCEPT !.fresh = "lost"] ELSE o

Tick ==
    /\ clock < MaxClock
    /\ clock' = clock + 1
    /\ obs' = [x \in Threads |-> Lapse(obs[x], clock + 1, token_expiry)]
    /\ UNCHANGED <<ctorVars, tokenVars, lock, issued, pc, depth, resp, calls,
                   pre>>
    /\ UNCHANGED outsideClient

\* ------------------------------------------------------------- ensure_token
\* variants of TokenExpired: a wrapper that refreshes on every call, and one
\* that applies the skew a second time
TokenExpired_Always(now, expiry) == TRUE

TokenExpired_Early(now, expiry) == now >= expiry - SKEW

\* client.py:126
TokenExpired(now, expiry) == now >= expiry

\* variant of CanAcquire: a wrapper without the lock
CanAcquire_NoLock(t) == TRUE

\* client.py:125, `with self._lock` can be entered
CanAcquire(t) == lock = NoThread

\* variant of WrapDepth: PlantAPI.list without its decorator
WrapDepth_Unwrapped(a) ==
    IF a = "client_energy" THEN 2 ELSE IF a = "plant_list" THEN 0 ELSE 1

\* number of ensure_token wrappers an accessor call passes
WrapDepth(a) == IF a = "client_energy" THEN 2 ELSE 1

\* variant of RefreshExpiry: the skew forgotten
RefreshExpiry_NoSkew(now, data) == now + Get(data, "expires_in", 0)

\* client.py:115
RefreshExpiry(now, data) == now + Get(data, "expires_in", 0) - SKEW

\* client.py:132-139
GetHeaders == <<"Bearer", access_token>>

NoObs ==
    [live |-> FALSE, startExpired |-> FALSE, posts |-> 0, failed |-> FALSE,
     fresh |-> "no", stale |-> 0, checked |-> FALSE, sent |-> <<>>]

\* where a thread goes once a wrapper has let it through
AfterCheck(t) == IF depth[t] > 1 THEN "lock" ELSE "call"

\* a thread calls an accessor (a function with no wrapper would start at
\* its body)
Call(t, a) ==
    /\ ctor = "ready"
    /\ pc[t] = "idle"
    /\ calls[t] < MaxCalls
    /\ depth' = [depth EXCEPT ![t] = WrapDepth(a)]
    /\ pc' = [pc EXCEPT ![t] = IF WrapDepth(a) > 0 THEN "lock" ELSE "call"]
    /\ obs' = [obs EXCEPT ![t] =
                [NoObs EXCEPT !.live = TRUE,
                              !.startExpired = (clock >= token_expiry)]]
    /\ UNCHANGED <<ctorVars, tokenVars, lock, clock, issued, resp, calls,
                   pre>>
    /\ UNCHANGED outsideClient

\* variant of EnsureFresh: func called before the with block is left
EnsureFresh_InsideWith(t) ==
    /\ pc[t] = "lock"
    /\ CanAcquire(t)
    /\ ~TokenExpired(clock, token_expiry)
    /\ lock' = IF depth[t] > 1 THEN t ELSE lock
    /\ depth' = [depth EXCEPT ![t] = @ - 1]
    /\ pc' = [pc EXCEPT ![t] = AfterCheck(t)]
    /\ obs' = [obs EXCEPT ![t].checked = TRUE]
    /\ UNCHANGED <<ctorVars, tokenVars, clock, issued, resp, calls, pre>>
    /\ UNCHANGED outsideClient

\* client.py:125-126, 129: the lock is taken, the token is fresh, the lock
\* is released and func is called
EnsureFresh(t) ==
    /\ pc[t] = "lock"
    /\ CanAcquire(t)
    /\ ~TokenExpired(clock, token_expiry)
    /\ depth' = [depth EXCEPT ![t] = @ - 1]
    /\ pc' = [pc EXCEPT ![t] = AfterCheck(t)]
    /\ obs' = [obs EXCEPT ![t].checked = TRUE]
    /\ UNCHANGED <<ctorVars, tokenVars, lock, clock, issued, resp, calls,
                   pre>>
    /\ UNCHANGED outsideClient

\* client.py:125-128, 104-110: the lock is taken, the token is expired and
\* _refresh_token POSTs the refresh-token grant
EnsureExpired(t) ==
    /\ pc[t] = "lock"
    /\ CanAcquire(t)
    /\ TokenExpired(clock, token_expiry)
    /\ lock' = t
    /\ pc' = [pc EXCEPT ![t] = "refresh"]
    /\ pre' = TokenState
    /\ obs' = [x \in Threads |->
                IF ~obs[x].live THEN obs[x]
                ELSE [obs[x] EXCEPT !.posts = @ + 1,
                                    !.stale = IF x = t THEN access_token
                                                       ELSE @]]
    /\ UNCHANGED <<ctorVars, tokenVars, clock, issued, depth, resp, calls>>
    /\ UNCHANGED outsideClient

\* variant of RefreshRaise: a wrapper that swallows the exception of
\* _refresh_token and calls func all the same
RefreshRaise_Swallowed(t) ==
    /\ lock' = NoThread
    /\ pc' = [pc EXCEPT ![t] = AfterCheck(t)]
    /\ depth' = [depth EXCEPT ![t] = @ - 1]
    /\ resp' = [resp EXCEPT ![t] = NoData]
    /\ calls' = calls
    /\ pre' = NoTokenState
    /\ obs' = [x \in Threads |->
                IF x = t THEN [obs[x] EXCEPT !.checked = TRUE]
                ELSE IF obs[x].live THEN [obs[x] EXCEPT !.failed = TRUE]
                ELSE obs[x]]

\* variant of RefreshRaise: the lock taken by acquire() and released only
\* after a refresh that returned
RefreshRaise_LockKept(t) ==
    /\ lock' = lock
    /\ pc' = [pc EXCEPT ![t] = "idle"]
    /\ depth' = [depth EXCEPT ![t] = 0]
    /\ resp' = [resp EXCEPT ![t] = NoData]
    /\ calls' = [calls EXCEPT ![t] = @ + 1]
    /\ pre' = NoTokenState
    /\ obs' = [x \in Threads |->
                IF x = t THEN NoObs
                ELSE IF obs[x].live THEN [obs[x] EXCEPT !.failed = TRUE]
                ELSE obs[x]]

\* client.py:125-129: an exception leaves the with block (the lock is
\* released) and the wrapper; func is not called
RefreshRaise(t) ==
    /\ lock' = NoThread
    /\ pc' = [pc EXCEPT ![t] = "idle"]
    /\ depth' = [depth EXCEPT ![t] = 0]
    /\ resp' = [resp EXCEPT ![t] = NoData]
    /\ calls' = [calls EXCEPT ![t] = @ + 1]
    /\ pre' = NoTokenState
    /\ obs' = [x \in Threads |->
                IF x = t THEN NoObs
                ELSE IF obs[x].live THEN [obs[x] EXCEPT !.failed = TRUE]
                ELSE obs[x]]

\* client.py:110-113: the response arrives; access_token is assigned
RefreshRespond(t, r) ==
    /\ pc[t] = "refresh"
    /\ IF ~r.ok \/ "access_token" \notin DOMAIN r.data
          THEN /\ RefreshRaise(t)
               /\ UNCHANGED <<tokenVars, issued>>
          ELSE /\ access_token' = r.data["access_token"]
               /\ issued' = issued + 1
               /\ resp' = [resp EXCEPT ![t] = r.data]
               /\ pc' = [pc EXCEPT ![t] = "setR"]
               /\ UNCHANGED <<refresh_token, token_expiry, expiry_src, lock,
                              depth, calls, pre, obs>>
    /\ UNCHANGED <<ctorVars, clock>>
    /\ UNCHANGED outsideClient

\* client.py:114
SetRefresh(t) ==
    /\ pc[t] = "setR"
    /\ IF "refresh_token" \notin DOMAIN resp[t]
          THEN /\ RefreshRaise(t)
               /\ UNCHANGED refresh_token
          ELSE /\ refresh_token' = resp[t]["refresh_token"]
               /\ pc' = [pc EXCEPT ![t] = "setE"]
               /\ UNCHANGED <<lock, depth, resp, calls, pre, obs>>
    /\ UNCHANGED <<ctorVars, access_token, token_expiry, expiry_src, clock,
                   issued>>
    /\ UNCHANGED outsideClient

\* history kept of a call in progress when a refresh completes with the
\* response data: the wire contract calls a data section without expires_in
\* a failure, the code completes the refresh with it
Renewed(o, now, expiry, data) ==
    [o EXCEPT !.fresh = IF now >= expiry \/ @ = "lost" THEN "lost" ELSE "yes",
              !.failed = @ \/ "expires_in" \notin DOMAIN data]

\* variant of SetExpiry: a wrapper that calls func inside the with block
SetExpiry_KeepsLock(t) ==
    /\ pc[t] = "setE"
    /\ token_expiry' = RefreshExpiry(clock, resp[t])
    /\ expiry_src' = resp[t]["access_token"]
    /\ lock' = t
    /\ pre' = NoTokenState
    /\ resp' = [resp EXCEPT ![t] = NoData]
    /\ depth' = [depth EXCEPT ![t] = @ - 1]
    /\ pc' = [pc EXCEPT ![t] = AfterCheck(t)]
    /\ obs' = [x \in Threads |->
                IF ~obs[x].live THEN obs[x]
                ELSE [Renewed(obs[x], clock, token_expiry', resp[t])
                        EXCEPT !.checked = IF x = t THEN TRUE ELSE @]]
    /\ UNCHANGED <<ctorVars, access_token, refresh_token, clock, issued,
                   calls>>
    /\ UNCHANGED outsideClient

\* client.py:115-116, the end of the with block, and client.py:129
SetExpiry(t) ==
    /\ pc[t] = "setE"
    /\ token_expiry' = RefreshExpiry(clock, resp[t])
    /\ expiry_src' = resp[t]["access_token"]
    /\ lock' = NoThread
    /\ pre' = NoTokenState
    /\ resp' = [resp EXCEPT ![t] = NoData]
    /\ depth' = [depth EXCEPT ![t] = @ - 1]
    /\ pc' = [pc EXCEPT ![t] = AfterCheck(t)]
    /\ obs' = [x \in Threads |->
                IF ~obs[x].live THEN obs[x]
                ELSE [Renewed(obs[x], clock, token_expiry', resp[t])
                        EXCEPT !.checked = IF x = t THEN TRUE ELSE @]]
    /\ UNCHANGED <<ctorVars, access_token, refresh_token, clock, issued,
                   calls>>
    /\ UNCHANGED outsideClient

\* the wrapped function builds its headers and issues the HTTP call
IssueCall(t) ==
    /\ pc[t] = "call"
    /\ pc' = [pc EXCEPT ![t] = "http"]
    /\ obs' = [obs EXCEPT ![t].sent = GetHeaders]
    /\ UNCHANGED <<ctorVars, tokenVars, lock, clock, issued, depth, resp,
                   calls, pre>>
    /\ UNCHANGED outsideClient

\* the HTTP call ends: the accessor returns or raises
Complete(t) ==
    /\ pc[t] = "http"
    /\ pc' = [pc EXCEPT ![t] = "idle"]
    /\ calls' = [calls EXCEPT ![t] = @ + 1]
    /\ obs' = [obs EXCEPT ![t] = NoObs]
    /\ UNCHANGED <<ctorVars, tokenVars, lock, clock, issued, depth, resp,
                   pre>>
    /\ UNCHANGED outsideClient

\* ------------------------------------------------------------ HTTP calls
\* One network call of the client is followed from the moment its first
\* HTTP attempt leaves to the value or exception its caller gets.

\* the accessors of each class; every one is wrapped by ensure_token
ClientAccessors == {"client_list", "client_energy", "client_realtime"}
PlantAccessors ==
    {"plant_list", "plant_count", "plant_detail", "plant_realtime",
     "plant_energy"}
InverterAccessors ==
    {"inverter_count", "inverter_list", "inverter_list_by_plant",
     "inverter_realtime_output"}
BatteryAccessors == {"battery_realtime", "load_realtime"}
GridAccessors == {"grid_realtime"}
GatewayAccessors == {"gateway_list", "gateway_count"}
EventAccessors == {"event_list"}
WorkDataAccessors == {"workdata_list"}

ResourceAccessors ==
    ClientAccessors \cup PlantAccessors \cup InverterAccessors \cup
    BatteryAccessors \cup GridAccessors \cup GatewayAccessors \cup
    EventAccessors \cup WorkDataAccessors

\* the POSTs of _authenticate and _refresh_token
TokenCalls == {"authenticate", "refresh"}

NetworkCalls == ResourceAccessors \cup TokenCalls

\* requests' default: no timeout argument, wait without limit
NoTimeout == 0

\* How a call reaches the network.  session: through self.session, on which
\* the Retry strategy is mounted, or through the module-level requests.get;
\* timeout: the timeout argument in seconds; raise_for_status: whether the
\* accessor checks the status of the response.
\* client.py:149-157
RequestCall ==
    [session |-> TRUE, timeout |-> DEFAULT_TIMEOUT, raise_for_status |-> TRUE]

\* client.py:92-94, 110-111
TokenCall ==
    [session |-> TRUE, timeout |-> DEFAULT_TIMEOUT, raise_for_status |-> TRUE]

\* plants.py:25-30 (34-39, 46-51, 55-60), 74-79
PlantCall(a) ==
    [session |-> FALSE, timeout |-> IF a = "plant_energy" THEN 20 ELSE 15,
     raise_for_status |-> FALSE]

\* inverters.py:24-30 (37-44, 70-72, 79-85)
InverterCall ==
    [session |-> FALSE, timeout |-> 15, raise_for_status |-> TRUE]

\* battery.py:8-11, 21-24; grid.py, gateways.py, events.py and workdata.py
\* make the same call
BareCall ==
    [session |-> FALSE, timeout |-> NoTimeout, raise_for_status |-> FALSE]

HowCalled(a) ==
    CASE a \in ClientAccessors -> RequestCall
      [] a \in TokenCalls -> TokenCall
      [] a \in PlantAccessors -> PlantCall(a)
      [] a \in InverterAccessors -> InverterCall
      [] OTHER -> BareCall

\* variant of MaxRetries: a strategy that allows one retry more
MaxRetries_OneMore(c) == IF c.session THEN REQUEST_RETRIES + 1 ELSE 0

\* client.py:45-53: Retry(total=REQUEST_RETRIES) is mounted on self.session
\* only; requests.get runs on a session of its own whose adapter does not
\* retry
MaxRetries(c) == IF c.session THEN REQUEST_RETRIES ELSE 0

\* client.py:48: the statuses the mounted strategy retries
ForcedStatus(c, status) == c.session /\ status \in STATUS_FORCELIST

\* what the server may do with one attempt: the connection fails, no answer
\* ever comes, or a response arrives with a status and a body that is the
\* JSON envelope {code, msg, data} or is not JSON
Statuses == {200, 400, 503}
Codes == {0, 1}
SomeData == [infos |-> 1]
NoReply == [kind |-> "none", status |-> 0, json |-> FALSE, body |-> NoData]
ConnectionFails ==
    [kind |-> "error", status |-> 0, json |-> FALSE, body |-> NoData]
Silent == [kind |-> "silent", status |-> 0, json |-> FALSE, body |-> NoData]
Replies ==
    {ConnectionFails, Silent} \cup
    {[kind |-> "http", status |-> st, json |-> FALSE, body |-> NoData] :
        st \in Statuses} \cup
    {[kind |-> "http", status |-> st, json |-> TRUE,
      body |-> [code |-> c, msg |-> "upstream msg", data |-> SomeData]] :
        st \in Statuses, c \in Codes}

\* what the mounted strategy retries: errors, timeouts and forced statuses
Retryable(c, r) ==
    \/ r.kind \in {"error", "silent"}
    \/ r.kind = "http" /\ ForcedStatus(c, r.status)

Return(v) == [kind |-> "return", value |-> v]
Raise(e, d) == [kind |-> "raise", error |-> e, detail |-> d]
NoOutcome == [kind |-> "none"]

\* client.py:152-157: _request after the transport has handed a response
RequestResult(r) ==
    IF r.status >= 400 THEN Raise("HTTPError", r.status)
    ELSE IF ~r.json THEN Raise("JSONDecodeError", r.status)
    ELSE IF Get(r.body, "code", 1) # 0
            THEN Raise("RuntimeError", Get(r.body, "msg", r.body))
    ELSE Return(Get(r.body, "data", NoData))

\* client.py:93-94, 111: raise_for_status, then `.json().get("data") or {}`
TokenResult(r) ==
    IF r.status >= 400 THEN Raise("HTTPError", r.status)
    ELSE IF ~r.json THEN Raise("JSONDecodeError", r.status)
    ELSE Return(Get(r.body, "data", NoData))

\* plants.py:25-30, inverters.py:29-30, battery.py:8-11: raise_for_status
\* where the accessor calls it, then `.json()` is returned
DecodedResult(c, r) ==
    IF c.raise_for_status /\ r.status >= 400
       THEN Raise("HTTPError", r.status)
    ELSE IF ~r.json THEN Raise("JSONDecodeError", r.status)
    ELSE Return(r.body)

\* the value or exception of the call once the transport stops: the
\* transport raises for an error, a timeout or a forced status that
\* outlived the retries, and hands any other response to the caller
Result(a, r) ==
    IF Retryable(HowCalled(a), r) THEN Raise("RequestException", r.kind)
    ELSE IF a \in ClientAccessors THEN RequestResult(r)
    ELSE IF a \in TokenCalls THEN TokenResult(r)
    ELSE DecodedResult(HowCalled(a), r)

\* the call starts: its first attempt leaves.  authenticate is the call of
\* a client under construction, every other one needs a constructed client.
Request(a) ==
    /\ http_pc # "sent"
    /\ (a = "authenticate") <=> (ctor = "auth")
    /\ accessor' = a
    /\ http_pc' = "sent"
    /\ attempts' = 1
    /\ reply' = NoReply
    /\ outcome' = NoOutcome
    /\ UNCHANGED <<clientVars, workflowVars, callVars>>

\* the server deals with the attempt in flight
Answer(r) ==
    /\ http_pc = "sent"
    /\ reply = NoReply
    /\ reply' = r
    /\ UNCHANGED <<clientVars, workflowVars, callVars, accessor, http_pc,
                   attempts, outcome>>

\* whether the attempt in flight has ended for the client: a response or an
\* error has come, or the timeout of the call has run out on a silent server
AttemptOver ==
    /\ http_pc = "sent"
    /\ reply # NoReply
    /\ reply = Silent => HowCalled(accessor).timeout # NoTimeout

\* the transport sends the request again
Resend ==
    /\ AttemptOver
    /\ Retryable(HowCalled(accessor), reply)
    /\ attempts <= MaxRetries(HowCalled(accessor))
    /\ attempts' = attempts + 1
    /\ reply' = NoReply
    /\ UNCHANGED <<clientVars, workflowVars, callVars, accessor, http_pc,
                   outcome>>

\* the transport stops and the call returns or raises
Finish ==
    /\ AttemptOver
    /\ ~(/\ Retryable(HowCalled(accessor), reply)
         /\ attempts <= MaxRetries(HowCalled(accessor)))
    /\ outcome' = Result(accessor, reply)
    /\ http_pc' = "done"
    /\ UNCHANGED <<clientVars, workflowVars, callVars, accessor, attempts,
                   reply>>

RequestIdle ==
    /\ accessor = "none"
    /\ http_pc = "idle"
    /\ attempts = 0
    /\ reply = NoReply
    /\ outcome = NoOutcome

\* --------------------------------------------------------------- workflows
\* The scripts of workflows/ that write to the data store.  A row is named
\* by its key; the n rows (or plants) a script finds have the keys 1..n.

Workflows == {"daily_report", "plant_power", "plant_inverters"}
Keys == 1..MaxRows
NoExit == -1
NoAge == -1
NoCounts == [inserted |-> 0, updated |-> 0, skipped |-> 0, failed |-> 0]

\* the keys lo..hi in order
RECURSIVE KeysFrom(_, _)
KeysFrom(lo, hi) == IF lo > hi THEN <<>> ELSE <<lo>> \o KeysFrom(lo + 1, hi)

Min(a, b) == IF a < b THEN a ELSE b

RECURSIVE Drop(_, _)
Drop(q, n) == IF n = 0 \/ q = <<>> THEN q ELSE Drop(Tail(q), n - 1)

Range(q) == {q[i] : i \in DOMAIN q}

\* an exception that no handler catches ends the process with status 1
Uncaught ==
    /\ wf_pc' = "aborted"
    /\ exit_code' = 1

\* the sink refuses, by raising, the insert of a row whose key it holds
InsertConflicts(k, s) == k \in s

\* update_estate_plant_daily_report.py:89
Pages(n) == IF n = 0 THEN 0 ELSE (n + PAGE_SIZE - 1) \div PAGE_SIZE

\* update_estate_plant_daily_report.py:81-92: the count query; it is in no
\* try block
DailyCount(n, ok) ==
    /\ wf = "daily_report"
    /\ wf_pc = "start"
    /\ IF ok THEN total' = n /\ wf_pc' = "page" /\ exit_code' = exit_code
             ELSE total' = total /\ Uncaught
    /\ UNCHANGED <<clientVars, requestVars, callVars, powerVars, upsert,
                   wf, quiet, page, idx, rows, sink,
                   counts, conflicts>>

\* update_estate_plant_daily_report.py:93-95: fetch_page is in no try block
DailyFetchPage(ok) ==
    /\ wf = "daily_report"
    /\ wf_pc = "page"
    /\ page < Pages(total)
    /\ IF ok
          THEN /\ rows' = KeysFrom(page * PAGE_SIZE + 1,
                                   Min((page + 1) * PAGE_SIZE, total))
               /\ wf_pc' = "rows"
               /\ exit_code' = exit_code
          ELSE rows' = rows /\ Uncaught
    /\ UNCHANGED <<clientVars, requestVars, callVars, powerVars, upsert,
                   wf, quiet, total, page, idx, sink,
                   counts, conflicts>>

\* variant of RowCounts: `inserted += 1` placed before the insert
RowCounts_CountedFirst(c, raised) ==
    IF raised THEN [c EXCEPT !.inserted = @ + 1, !.skipped = @ + 1]
              ELSE [c EXCEPT !.inserted = @ + 1]

\* update_estate_plant_daily_report.py:98-102
RowCounts(c, raised) ==
    IF raised THEN [c EXCEPT !.skipped = @ + 1]
              ELSE [c EXCEPT !.inserted = @ + 1]

\* update_estate_plant_daily_report.py:97-102: one pass of the row loop.
\* fault: build_payload or the insert raises for a reason of its own.
DailyRow(fault) ==
    /\ wf = "daily_report"
    /\ wf_pc = "rows"
    /\ rows # <<>>
    /\ LET k == Head(rows)
           raised == fault \/ InsertConflicts(k, sink)
       IN /\ counts' = RowCounts(counts, raised)
          /\ sink' = IF raised THEN sink ELSE sink \cup {k}
          /\ conflicts' = IF ~fault /\ InsertConflicts(k, sink)
                             THEN conflicts + 1 ELSE conflicts
    /\ rows' = Tail(rows)
    /\ idx' = idx + 1
    /\ IF Tail(rows) = <<>>
          THEN page' = page + 1 /\ wf_pc' = "page"
          ELSE page' = page /\ wf_pc' = wf_pc
    /\ UNCHANGED <<clientVars, requestVars, callVars, powerVars, upsert,
                   wf, quiet, total, exit_code>>

\* update_estate_plant_daily_report.py:106
DailyEnd ==
    /\ wf = "daily_report"
    /\ wf_pc = "page"
    /\ page = Pages(total)
    /\ wf_pc' = "done"
    /\ exit_code' = 0
    /\ UNCHANGED <<clientVars, requestVars, callVars, powerVars, upsert,
                   wf, quiet, total, page, idx, rows,
                   sink, counts, conflicts>>

\* seconds a blocking step (an HTTP call with its retries) may take
Durations == {0, 1, REAUTH_INTERVAL}

\* update_plant_power.py:174: the client is built through _retry_call,
\* which raises again once its tries are used up; d: the seconds it took
PowerAuth(ok, d) ==
    /\ wf = "plant_power"
    /\ wf_pc = "start"
    /\ IF ok THEN /\ wf_pc' = "list"
                  /\ wf_now' = wf_now + d
                  /\ api_born' = wf_now + d
                  /\ exit_code' = exit_code
             ELSE /\ Uncaught
                  /\ UNCHANGED <<wf_now, api_born>>
    /\ UNCHANGED <<clientVars, requestVars, callVars, wf, quiet, total, page,
                   idx, rows, sink, counts, conflicts, sk_start, fetch_age,
                   session, supabase_last_refresh, upsert>>

\* update_plant_power.py:175-188: the plants are listed page by page, then
\* sk_start is taken
PowerList(n, ok, d) ==
    /\ wf = "plant_power"
    /\ wf_pc = "list"
    /\ IF ok THEN /\ total' = n
                  /\ wf_pc' = IF n = 0 THEN "insert" ELSE "fetch"
                  /\ wf_now' = wf_now + d
                  /\ sk_start' = wf_now + d
                  /\ exit_code' = exit_code
             ELSE /\ Uncaught
                  /\ UNCHANGED <<total, wf_now, sk_start>>
    /\ UNCHANGED <<clientVars, requestVars, callVars, wf, quiet, page, idx,
                   rows, sink, counts, conflicts, api_born, fetch_age,
                   session, supabase_last_refresh, upsert>>

\* update_plant_power.py:191
ReauthDue(now, start) == now - start > REAUTH_INTERVAL

\* update_plant_power.py:189-206: one pass of the plant loop.  If the
\* re-authentication is due a client is built first (d1 seconds) and
\* sk_start taken anew; then the fetch starts and takes d2 seconds.  res is
\* "ok" (rows are collected, one per plant here), "bad" (code # 0 or no data:
\* the plant is passed over), "raise" (_retry_call gave up on the fetch) or
\* "reauth_raise" (it gave up on the new client); the loop has no try block.
PowerFetch(res, d1, d2) ==
    /\ wf = "plant_power"
    /\ wf_pc = "fetch"
    /\ idx < total
    /\ LET due == ReauthDue(wf_now, sk_start)
           begun == IF due THEN wf_now + d1 ELSE wf_now
       IN /\ ~due => (d1 = 0 /\ res # "reauth_raise")
          /\ IF res = "reauth_raise"
                THEN /\ Uncaught
                     /\ wf_now' = begun
                     /\ UNCHANGED <<idx, rows, sk_start, api_born, fetch_age>>
                ELSE /\ sk_start' = IF due THEN begun ELSE sk_start
                     /\ api_born' = IF due THEN begun ELSE api_born
                     /\ fetch_age' = begun - api_born'
                     /\ wf_now' = begun + d2
                     /\ IF res = "raise"
                           THEN /\ Uncaught
                                /\ UNCHANGED <<idx, rows>>
                           ELSE /\ idx' = idx + 1
                                /\ rows' = IF res = "ok"
                                              THEN Append(rows, idx + 1)
                                              ELSE rows
                                /\ wf_pc' = IF idx + 1 = total
                                               THEN "insert" ELSE "fetch"
                                /\ exit_code' = exit_code
    /\ UNCHANGED <<clientVars, requestVars, callVars, wf, quiet, total, page,
                   sink, counts, conflicts, session, supabase_last_refresh,
                   upsert>>

\* supabase/client.py:82-94: refresh_session does nothing without a session
\* and raises again what the refresh raised
RefreshSession(sess, ok) ==
    IF ~sess THEN "none" ELSE IF ok THEN "refreshed" ELSE "raised"

\* variant of MaybeRefresh: the interval compared with >
MaybeRefresh_Strict(sess, last, now, ok) ==
    IF ~sess \/ ~(now - last > REAUTH_INTERVAL)
       THEN [calls |-> 0, last |-> last, raised |-> FALSE]
       ELSE LET r == RefreshSession(sess, ok)
            IN [calls |-> 1,
                last |-> IF r = "raised" THEN last ELSE now,
                raised |-> FALSE]

\* update_plant_power.py:125-138: _maybe_refresh_supabase with the session,
\* supabase_last_refresh and time.time() it finds; ok: the refresh goes
\* through.  calls counts the calls of refresh_session; `except Exception`
\* keeps what it raises from the caller.
MaybeRefresh(sess, last, now, ok) ==
    IF ~sess \/ now - last < REAUTH_INTERVAL
       THEN [calls |-> 0, last |-> last, raised |-> FALSE]
       ELSE LET r == RefreshSession(sess, ok)
            IN [calls |-> 1,
                last |-> IF r = "raised" THEN last ELSE now,
                raised |-> FALSE]

NoFault == -1

\* update_plant_power.py:148, 157: the insert of one row raises 23505 if the
\* table holds its key; the insert of a list is one statement, which raises
\* 23505, leaving the table as it was, if a key is held or comes twice
BulkConflicts(batch, s) ==
    \/ \E i \in DOMAIN batch : InsertConflicts(batch[i], s)
    \/ \E i, j \in DOMAIN batch : i # j /\ batch[i] = batch[j]

\* update_plant_power.py:154-163: the row-by-row loop from row i on.  acc
\* is the table, supabase_last_refresh, the count and the calls made so
\* far; env.fault = i: the insert of row i raises something else than a
\* 23505 APIError, which is raised again.
RECURSIVE InsertEach(_, _, _, _)
InsertEach(batch, i, acc, env) ==
    IF i > Len(batch) THEN acc
    ELSE LET m == MaybeRefresh(env.session, acc.last, env.now, env.refresh_ok)
             a == [acc EXCEPT !.last = m.last,
                              !.refreshes = @ + m.calls,
                              !.inserts = @ + 1]
         IN IF env.fault = i THEN [a EXCEPT !.raised = TRUE]
            ELSE IF InsertConflicts(batch[i], a.sink)
                    THEN InsertEach(batch, i + 1, a, env)
            ELSE InsertEach(batch, i + 1,
                            [a EXCEPT !.sink = @ \cup {batch[i]},
                                      !.count = @ + 1], env)

\* variant of InsertChunk: no row-by-row loop after a 23505
InsertChunk_BulkOnly(batch, s, last, env) ==
    IF batch = <<>>
       THEN [sink |-> s, last |-> last, count |-> 0, inserts |-> 0,
             refreshes |-> 0, raised |-> FALSE]
       ELSE LET m == MaybeRefresh(env.session, last, env.now, env.refresh_ok)
                a == [sink |-> s, last |-> m.last, count |-> 0, inserts |-> 1,
                      refreshes |-> m.calls, raised |-> FALSE]
            IN IF env.fault = 0 THEN [a EXCEPT !.raised = TRUE]
               ELSE IF ~BulkConflicts(batch, s)
                       THEN [a EXCEPT !.sink = s \cup Range(batch),
                                      !.count = Len(batch)]
               ELSE a

\* update_plant_power.py:144-166: _insert_chunk on the table s.  inserts
\* counts the insert statements sent, refreshes the calls of
\* refresh_session; env.fault = 0: the bulk insert raises something else
\* than a 23505 APIError.
InsertChunk(batch, s, last, env) ==
    IF batch = <<>>
       THEN [sink |-> s, last |-> last, count |-> 0, inserts |-> 0,
             refreshes |-> 0, raised |-> FALSE]
       ELSE LET m == MaybeRefresh(env.session, last, env.now, env.refresh_ok)
                a == [sink |-> s, last |-> m.last, count |-> 0, inserts |-> 1,
                      refreshes |-> m.calls, raised |-> FALSE]
            IN IF env.fault = 0 THEN [a EXCEPT !.raised = TRUE]
               ELSE IF ~BulkConflicts(batch, s)
                       THEN [a EXCEPT !.sink = s \cup Range(batch),
                                      !.count = Len(batch)]
               ELSE InsertEach(batch, 1, a, env)

\* update_plant_power.py:210-214 with _insert_chunk: one pass of the chunk
\* loop; it has no try block.  d: the seconds the pass takes.
PowerChunk(fault, ok, d) ==
    /\ wf = "plant_power"
    /\ wf_pc = "insert"
    /\ rows # <<>>
    /\ LET batch == SubSeq(rows, 1, Min(CHUNK_SIZE, Len(rows)))
           r == InsertChunk(batch, sink, supabase_last_refresh,
                            [session |-> session, now |-> wf_now,
                             refresh_ok |-> ok, fault |-> fault])
       IN /\ fault \in {NoFault} \cup (0..Len(batch))
          /\ (fault > 0) => BulkConflicts(batch, sink)
          /\ sink' = r.sink
          /\ supabase_last_refresh' = r.last
          /\ IF r.raised
                THEN /\ Uncaught
                     /\ UNCHANGED <<rows, counts, conflicts>>
                ELSE /\ rows' = Drop(rows, CHUNK_SIZE)
                     /\ counts' = [counts EXCEPT !.inserted = @ + r.count]
                     /\ conflicts' = conflicts + (Len(batch) - r.count)
                     /\ UNCHANGED <<wf_pc, exit_code>>
    /\ wf_now' = wf_now + d
    /\ UNCHANGED <<clientVars, requestVars, callVars, wf, quiet, total, page,
                   idx, sk_start, api_born, fetch_age, session, upsert>>

\* update_plant_power.py:215-216, 233-234
PowerEnd ==
    /\ wf = "plant_power"
    /\ wf_pc = "insert"
    /\ rows = <<>>
    /\ wf_pc' = "done"
    /\ exit_code' = 0
    /\ UNCHANGED <<clientVars, requestVars, callVars, powerVars, upsert,
                   wf, quiet, total, page, idx, rows,
                   sink, counts, conflicts>>

\* update_plant_inverters.py:118: InverterAPI(...) authenticates; the call
\* is in no try block
InvAuth(ok) ==
    /\ wf = "plant_inverters"
    /\ wf_pc = "start"
    /\ IF ok THEN wf_pc' = "plants" /\ exit_code' = exit_code
             ELSE Uncaught
    /\ UNCHANGED <<clientVars, requestVars, callVars, powerVars, upsert,
                   wf, quiet, total, page, idx, rows,
                   sink, counts, conflicts>>

\* update_plant_inverters.py:126
ExitOnFetchError(q) == IF q THEN 0 ELSE 1

\* update_plant_inverters.py:122-128
InvPlants(n, ok) ==
    /\ wf = "plant_inverters"
    /\ wf_pc = "plants"
    /\ IF ok THEN total' = n /\ wf_pc' = "items" /\ exit_code' = exit_code
             ELSE /\ total' = total
                  /\ wf_pc' = "done"
                  /\ exit_code' = ExitOnFetchError(quiet)
    /\ UNCHANGED <<clientVars, requestVars, callVars, powerVars, upsert,
                   wf, quiet, page, idx, rows, sink,
                   counts, conflicts>>

NoUpsert == [result |-> "none"]

\* what the table answers to the INSERT of key k: a duplicate-key error if
\* it holds the key
InsertAnswer(k, s, fault) ==
    IF fault THEN "error"
    ELSE IF InsertConflicts(k, s) THEN "duplicate" ELSE "ok"

\* variant of UpsertInverter: the UPDATE tried after any failed INSERT
UpsertInverter_UpdatesOnAnyError(ins, upd) ==
    IF ins = "ok" THEN [result |-> "inserted", updates |-> 0]
    ELSE IF upd = "ok" THEN [result |-> "updated", updates |-> 1]
    ELSE [result |-> "failed", updates |-> 1]

\* update_plant_inverters.py:90-114: INSERT first; on a duplicate key,
\* UPDATE.  ins is what the INSERT does ("ok", "duplicate", "error"), upd
\* what the UPDATE does if it runs ("ok", "error"); updates counts the
\* UPDATE statements sent.
UpsertInverter(ins, upd) ==
    IF ins = "ok" THEN [result |-> "inserted", updates |-> 0]
    ELSE IF ins # "duplicate" THEN [result |-> "failed", updates |-> 0]
    ELSE IF upd = "ok" THEN [result |-> "updated", updates |-> 1]
    ELSE [result |-> "failed", updates |-> 1]

\* update_plant_inverters.py:130-151: one pass of the plant loop, for a plant
\* with one inverter.  res is "raise" (list_by_plant raises or answers
\* without data), "ok", "insert_error" or "update_error" (the statement
\* fails for a reason other than a duplicate key).
InvPlant(res) ==
    /\ wf = "plant_inverters"
    /\ wf_pc = "items"
    /\ idx < total
    /\ idx' = idx + 1
    /\ LET k == idx + 1
           ins == InsertAnswer(k, sink, res = "insert_error")
           upd == IF res = "update_error" THEN "error" ELSE "ok"
           r == UpsertInverter(ins, upd)
           did == IF res = "raise" THEN "failed" ELSE r.result
       IN /\ counts' = [counts EXCEPT ![did] = @ + 1]
          /\ sink' = IF did = "inserted" THEN sink \cup {k} ELSE sink
          /\ conflicts' = IF res # "raise" /\ ins = "duplicate"
                             THEN conflicts + 1 ELSE conflicts
          /\ upsert' = IF res = "raise" THEN NoUpsert
                       ELSE [result |-> r.result, updates |-> r.updates,
                             ins |-> ins, upd |-> upd]
    /\ UNCHANGED <<clientVars, requestVars, callVars, powerVars, wf, quiet,
                   wf_pc, total, page, rows, exit_code>>

\* update_plant_inverters.py:159-160
ExitAtEnd(failed, q) == IF failed # 0 /\ ~q THEN 1 ELSE 0

\* update_plant_inverters.py:153-160
InvEnd ==
    /\ wf = "plant_inverters"
    /\ wf_pc = "items"
    /\ idx = total
    /\ wf_pc' = "done"
    /\ exit_code' = ExitAtEnd(counts.failed, quiet)
    /\ UNCHANGED <<clientVars, requestVars, callVars, powerVars, upsert,
                   wf, quiet, total, page, idx, rows,
                   sink, counts, conflicts>>

WorkflowIdle ==
    /\ wf = "none"
    /\ quiet = FALSE
    /\ wf_pc = "start"
    /\ total = 0
    /\ page = 0
    /\ idx = 0
    /\ rows = <<>>
    /\ sink = {}
    /\ counts = NoCounts
    /\ conflicts = 0
    /\ exit_code = NoExit
    /\ wf_now = 0
    /\ sk_start = 0
    /\ api_born = 0
    /\ fetch_age = NoAge
    /\ session = FALSE
    /\ supabase_last_refresh = 0
    /\ upsert = NoUpsert

\* ------------------------------------------------- helper functions
RECURSIVE Pow(_, _)
Pow(x, k) == IF k = 0 THEN 1 ELSE x * Pow(x, k - 1)

\* update_plant_power.py:81, update_estate_plant.py:84: backoff ** attempt,
\* the backoff given as a fraction
Delay(factor, n) ==
    [num |-> Pow(factor.num, n), den |-> Pow(factor.den, n)]

\* variant of GivesUp: one try fewer
GivesUp_OneEarly(n, retries) == n >= retries

\* update_plant_power.py:78, update_estate_plant.py:82
GivesUp(n, retries) == n > retries

\* update_plant_power.py:72-85, update_estate_plant.py:76-87: the loop of
\* _retry_call.  outcomes[i] tells whether the i-th call of func returns;
\* st holds attempt, the calls made and the sleeps slept.  value and error
\* name the call whose result is returned or whose exception is raised.
RECURSIVE RetryLoop(_, _, _, _)
RetryLoop(outcomes, retries, factor, st) ==
    LET c == st.calls + 1
    IN IF outcomes[c]
          THEN [kind |-> "return", value |-> c, calls |-> c,
                sleeps |-> st.sleeps]
          ELSE IF GivesUp(st.attempt + 1, retries)
                  THEN [kind |-> "raise", error |-> c, calls |-> c,
                        sleeps |-> st.sleeps]
          ELSE RetryLoop(outcomes, retries, factor,
                         [attempt |-> st.attempt + 1, calls |-> c,
                          sleeps |-> Append(st.sleeps,
                                            Delay(factor, st.attempt + 1))])

\* update_plant_power.py:66-85, update_estate_plant.py:74-87
RetryCallOf(outcomes, retries, factor) ==
    RetryLoop(outcomes, retries, factor,
              [attempt |-> 0, calls |-> 0, sleeps |-> <<>>])

\* a phone number is a sequence of characters
Digits == {"0", "1", "2", "3", "4", "5", "6", "7", "8", "9"}

\* re.sub(r"\D+", "", number)
StripNonDigits(number) == SelectSeq(number, LAMBDA c : c \in Digits)

\* str.startswith
StartsWith(str, prefix) ==
    /\ Len(str) >= Len(prefix)
    /\ SubSeq(str, 1, Len(prefix)) = prefix

\* clickatell_client.py:67-83
FormatSaMsisdn(number) ==
    LET digits == StripNonDigits(number)
    IN IF StartsWith(digits, <<"2", "7">>)
          THEN [kind |-> "return", value |-> digits]
       ELSE IF StartsWith(digits, <<"0">>) /\ Len(digits) = 10
          THEN [kind |-> "return", value |-> <<"2", "7">> \o Tail(digits)]
       ELSE [kind |-> "raise", error |-> "ValueError"]

\* whatsapp_client.py:59-66
NormalizeSaMsisdn(num) ==
    LET digits == StripNonDigits(num)
    IN IF StartsWith(digits, <<"2", "7">>)
          THEN [kind |-> "return", value |-> digits]
       ELSE IF StartsWith(digits, <<"0">>) /\ Len(digits) = 10
          THEN [kind |-> "return", value |-> <<"2", "7">> \o Tail(digits)]
       ELSE [kind |-> "raise", error |-> "ValueError"]

\* clickatell_client.py:120-155, whatsapp_client.py:76-103: the ValueError
\* of the normaliser becomes a RuntimeError before anything is posted;
\* otherwise the message is posted to msisdn.value and the answer returned,
\* or a RuntimeError raised if the gateway does not accept it (ok = FALSE)
Send(msisdn, ok) ==
    IF msisdn.kind = "raise"
       THEN [kind |-> "raise", error |-> "RuntimeError", posted |-> FALSE,
             to |-> <<>>]
       ELSE [kind |-> IF ok THEN "return" ELSE "raise",
             error |-> IF ok THEN "none" ELSE "RuntimeError",
             posted |-> TRUE, to |-> msisdn.value]

NoArg == [none |-> TRUE]
NoRet == [kind |-> "none"]

CallIdle ==
    /\ fn = "none"
    /\ arg = NoArg
    /\ ret = NoRet

\* _insert_chunk called on its own, on the table and session it finds
InsertChunkCall ==
    /\ fn = "_insert_chunk"
    /\ ret = NoRet
    /\ LET r == InsertChunk(arg.rows, sink, supabase_last_refresh,
                            [session |-> session, now |-> wf_now,
                             refresh_ok |-> arg.refresh_ok,
                             fault |-> arg.fault])
       IN /\ sink' = r.sink
          /\ supabase_last_refresh' = r.last
          /\ ret' = [kind |-> IF r.raised THEN "raise" ELSE "return",
                     count |-> r.count, inserts |-> r.inserts,
                     refreshes |-> r.refreshes, before |-> sink]
    /\ UNCHANGED <<clientVars, requestVars, fn, arg, wf, quiet, wf_pc, total,
                   page, idx, rows, counts, conflicts, exit_code, wf_now,
                   sk_start, api_born, fetch_age, session, upsert>>

\* _maybe_refresh_supabase called on its own
MaybeRefreshCall ==
    /\ fn = "_maybe_refresh_supabase"
    /\ ret = NoRet
    /\ LET r == MaybeRefresh(session, supabase_last_refresh, wf_now,
                             arg.refresh_ok)
       IN /\ supabase_last_refresh' = r.last
          /\ ret' = [kind |-> IF r.raised THEN "raise" ELSE "return",
                     refreshes |-> r.calls, before |-> supabase_last_refresh]
    /\ UNCHANGED <<clientVars, requestVars, fn, arg, wf, quiet, wf_pc, total,
                   page, idx, rows, sink, counts, conflicts, exit_code,
                   wf_now, sk_start, api_born, fetch_age, session, upsert>>

\* clickatell_client.py:87-155
SendSms(ok) ==
    /\ fn = "send_sms"
    /\ ret = NoRet
    /\ ret' = Send(FormatSaMsisdn(arg.phone), ok)
    /\ UNCHANGED <<clientVars, requestVars, workflowVars, fn, arg>>

\* whatsapp_client.py:70-103
SendWhatsapp(ok) ==
    /\ fn = "send_whatsapp"
    /\ ret = NoRet
    /\ ret' = Send(NormalizeSaMsisdn(arg.phone), ok)
    /\ UNCHANGED <<clientVars, requestVars, workflowVars, fn, arg>>

\* _retry_call called with a func that behaves as arg.outcomes tells
RetryCall ==
    /\ fn = "_retry_call"
    /\ ret = NoRet
    /\ ret' = RetryCallOf(arg.outcomes, arg.retries, arg.backoff)
    /\ UNCHANGED <<clientVars, requestVars, workflowVars, fn, arg>>

\* ---------------------------------------------------------- specification
Init ==
    /\ ctor = "auth"
    /\ attempt = 1
    /\ backoff = 0
    /\ ctor_resp = NoData
    /\ access_token = 0
    /\ refresh_token = 0
    /\ token_expiry = 0
    /\ expiry_src = 0
    /\ lock = NoThread
    /\ clock = 1
    /\ issued = 0
    /\ pc = [t \in Threads |-> "idle"]
    /\ depth = [t \in Threads |-> 0]
    /\ resp = [t \in Threads |-> NoData]
    /\ calls = [t \in Threads |-> 0]
    /\ pre = NoTokenState
    /\ obs = [t \in Threads |-> NoObs]
    /\ RequestIdle
    /\ WorkflowIdle
    /\ CallIdle

Next ==
    \/ \E r \in Responses(issued + 1) : AuthRespond(r)
    \/ AuthSetRefresh
    \/ AuthSetExpiry
    \/ Tick
    \/ \E t \in Threads, a \in Accessors : Call(t, a)
    \/ \E t \in Threads : EnsureFresh(t)
    \/ \E t \in Threads : EnsureExpired(t)
    \/ \E t \in Threads : \E r \in Responses(issued + 1) : RefreshRespond(t, r)
    \/ \E t \in Threads : SetRefresh(t)
    \/ \E t \in Threads : SetExpiry(t)
    \/ \E t \in Threads : IssueCall(t)
    \/ \E t \in Threads : Complete(t)

Spec == Init /\ [][Next]_vars

\* Spec with the progress the code guarantees.  A thread that can enter the
\* with block does so; a refresh POST ends, by a response or by its
\* timeout of DEFAULT_TIMEOUT seconds; a thread inside _refresh_token runs
\* on.  Nothing is assumed of the clock or of new calls being made.
Progress(t) ==
    /\ WF_vars(EnsureFresh(t) \/ EnsureExpired(t))
    /\ WF_vars(\E r \in Responses(issued + 1) : RefreshRespond(t, r))
    /\ WF_vars(SetRefresh(t))
    /\ WF_vars(SetExpiry(t))

FairSpec == Spec /\ \A t \in Threads : Progress(t)

\* A client under construction, or a constructed one holding the tokens of
\* the first response of the identity provider.
RequestInit ==
    /\ \/ /\ ctor = "auth"
          /\ attempt = 1
          /\ access_token = 0
          /\ refresh_token = 0
          /\ token_expiry = 0
          /\ expiry_src = 0
          /\ issued = 0
       \/ /\ ctor = "ready"
          /\ attempt = 0
          /\ access_token = 1
          /\ refresh_token = 1
          /\ token_expiry = AuthExpiry(1, DataOf(TokenFields, 1, MaxExpiresIn))
          /\ expiry_src = 1
          /\ issued = 1
    /\ backoff = 0
    /\ ctor_resp = NoData
    /\ lock = NoThread
    /\ clock = 1
    /\ pc = [t \in Threads |-> "idle"]
    /\ depth = [t \in Threads |-> 0]
    /\ resp = [t \in Threads |-> NoData]
    /\ calls = [t \in Threads |-> 0]
    /\ pre = NoTokenState
    /\ obs = [t \in Threads |-> NoObs]
    /\ RequestIdle
    /\ WorkflowIdle
    /\ CallIdle

RequestNext ==
    \/ \E a \in NetworkCalls : Request(a)
    \/ \E r \in Replies : Answer(r)
    \/ Resend
    \/ Finish

RequestSpec == RequestInit /\ [][RequestNext]_vars

\* A script is started, with or without --quiet where it reads the flag,
\* on a sink that holds any of the keys.
WorkflowInit ==
    /\ ctor = "auth"
    /\ attempt = 1
    /\ backoff = 0
    /\ ctor_resp = NoData
    /\ access_token = 0
    /\ refresh_token = 0
    /\ token_expiry = 0
    /\ expiry_src = 0
    /\ lock = NoThread
    /\ clock = 1
    /\ issued = 0
    /\ pc = [t \in Threads |-> "idle"]
    /\ depth = [t \in Threads |-> 0]
    /\ resp = [t \in Threads |-> NoData]
    /\ calls = [t \in Threads |-> 0]
    /\ pre = NoTokenState
    /\ obs = [t \in Threads |-> NoObs]
    /\ RequestIdle
    /\ wf \in Workflows
    /\ quiet \in (IF wf = "plant_inverters" THEN BOOLEAN ELSE {FALSE})
    /\ wf_pc = "start"
    /\ total = 0
    /\ page = 0
    /\ idx = 0
    /\ rows = <<>>
    /\ sink \in SUBSET Keys
    /\ counts = NoCounts
    /\ conflicts = 0
    /\ exit_code = NoExit
    /\ wf_now = 0
    /\ sk_start = 0
    /\ api_born = 0
    /\ fetch_age = NoAge
    /\ session \in (IF wf = "plant_power" THEN BOOLEAN ELSE {FALSE})
    /\ supabase_last_refresh = 0
    /\ upsert = NoUpsert
    /\ CallIdle

WorkflowNext ==
    \/ \E n \in 0..MaxRows, ok \in BOOLEAN : DailyCount(n, ok)
    \/ \E ok \in BOOLEAN : DailyFetchPage(ok)
    \/ \E fault \in BOOLEAN : DailyRow(fault)
    \/ DailyEnd
    \/ \E ok \in BOOLEAN, d \in Durations : PowerAuth(ok, d)
    \/ \E n \in 0..MaxRows, ok \in BOOLEAN, d \in Durations :
            PowerList(n, ok, d)
    \/ \E res \in {"ok", "bad", "raise", "reauth_raise"},
          d1, d2 \in Durations : PowerFetch(res, d1, d2)
    \/ \E fault \in NoFault..CHUNK_SIZE, ok \in BOOLEAN, d \in Durations :
            PowerChunk(fault, ok, d)
    \/ PowerEnd
    \/ \E ok \in BOOLEAN : InvAuth(ok)
    \/ \E n \in 0..MaxRows, ok \in BOOLEAN : InvPlants(n, ok)
    \/ \E res \in {"ok", "insert_error", "update_error", "raise"} :
            InvPlant(res)
    \/ InvEnd

WorkflowSpec == WorkflowInit /\ [][WorkflowNext]_vars

\* The helper functions, each called once on inputs drawn from bounded sets.
Functions == {"_insert_chunk", "_maybe_refresh_supabase", "send_sms",
              "send_whatsapp", "_retry_call"}

SeqsUpTo(S, n) == UNION {[1..m -> S] : m \in 0..n}

\* instants around the refresh interval
Times == {0, 1, REAUTH_INTERVAL - 1, REAUTH_INTERVAL, REAUTH_INTERVAL + 1}

\* phone numbers: a few leading characters, then a run of one digit
PrefixChars == {"0", "2", "7", "+", " "}
Fill(n) == [i \in 1..n |-> "8"]
Phones == {p \o Fill(n) : p \in SeqsUpTo(PrefixChars, MaxPrefix),
                          n \in 0..MaxFill}

\* 1.5, the default of both copies, and 2
Backoffs == {[num |-> 3, den |-> 2], [num |-> 2, den |-> 1]}

ArgsOf(f) ==
    CASE f = "_insert_chunk" ->
            {a \in [rows : SeqsUpTo(Keys, CHUNK_SIZE), refresh_ok : BOOLEAN,
                    fault : NoFault..CHUNK_SIZE] : a.fault <= Len(a.rows)}
      [] f = "_maybe_refresh_supabase" -> [refresh_ok : BOOLEAN]
      [] f \in {"send_sms", "send_whatsapp"} -> [phone : Phones]
      [] f = "_retry_call" ->
            UNION {[retries : {n}, backoff : Backoffs,
                    outcomes : [1..(n + 2) -> BOOLEAN]] : n \in 0..MaxRetryArg}

CallInit ==
    /\ ctor = "auth"
    /\ attempt = 1
    /\ backoff = 0
    /\ ctor_resp = NoData
    /\ access_token = 0
    /\ refresh_token = 0
    /\ token_expiry = 0
    /\ expiry_src = 0
    /\ lock = NoThread
    /\ clock = 1
    /\ issued = 0
    /\ pc = [t \in Threads |-> "idle"]
    /\ depth = [t \in Threads |-> 0]
    /\ resp = [t \in Threads |-> NoData]
    /\ calls = [t \in Threads |-> 0]
    /\ pre = NoTokenState
    /\ obs = [t \in Threads |-> NoObs]
    /\ RequestIdle
    /\ wf = "none"
    /\ quiet = FALSE
    /\ wf_pc = "start"
    /\ total = 0
    /\ page = 0
    /\ idx = 0
    /\ rows = <<>>
    /\ counts = NoCounts
    /\ conflicts = 0
    /\ exit_code = NoExit
    /\ sk_start = 0
    /\ api_born = 0
    /\ fetch_age = NoAge
    /\ upsert = NoUpsert
    /\ fn \in Functions
    /\ arg \in ArgsOf(fn)
    /\ ret = NoRet
    /\ sink \in (IF fn = "_insert_chunk" THEN SUBSET Keys ELSE {{}})
    /\ session \in (IF fn \in {"_insert_chunk", "_maybe_refresh_supabase"}
                       THEN BOOLEAN ELSE {FALSE})
    /\ supabase_last_refresh
            \in (IF fn = "_maybe_refresh_supabase" THEN Times ELSE {0})
    /\ wf_now \in (IF fn = "_maybe_refresh_supabase"
                      THEN {t \in Times : t >= supabase_last_refresh}
                   ELSE IF fn = "_insert_chunk" THEN {0, REAUTH_INTERVAL}
                   ELSE {0})

CallNext ==
    \/ InsertChunkCall
    \/ MaybeRefreshCall
    \/ \E ok \in BOOLEAN : SendSms(ok)
    \/ \E ok \in BOOLEAN : SendWhatsapp(ok)
    \/ RetryCall

CallSpec == CallInit /\ [][CallNext]_vars

\* ------------------------------------------------------------------ claims
RefreshStages == {"refresh", "setR", "setE"}

\* the calls whose HTTP request has been issued after they were begun with
\* an expired token, every refresh response since having been a success of
\* the wire contract (2xx, data with all three fields)
SentFromExpired(t) ==
    /\ pc[t] = "http"
    /\ obs[t].startExpired
    /\ ~obs[t].failed

\* one refresh served the call: a refresh completed after the call began, at
\* most one refresh POST was made since, and the token sent is the current one
ServedByOneRefresh(t) ==
    /\ obs[t].fresh = "yes"
    /\ obs[t].posts <= 1
    /\ obs[t].sent = <<"Bearer", access_token>>

\* C1: at most one authenticate/refresh operation of the instance is in
\* flight at any time: no two threads are inside _refresh_token together.
C1_OneRefreshInFlight ==
    Cardinality({t \in Threads : pc[t] \in RefreshStages}) <= 1

C1_Witness ==
    \E t, u \in Threads :
        /\ pc[t] = "refresh"
        /\ pc[u] = "lock"
        /\ obs[u].startExpired
        /\ clock >= token_expiry

C3_NoStaleCall ==
    /\ [](\A t \in Threads :
            (pc[t] \in {"call", "http"} /\ obs[t].stale # 0)
                => /\ obs[t].fresh # "no"
                   /\ access_token > obs[t].stale
                   /\ (pc[t] = "http" => obs[t].sent[2] > obs[t].stale))
    /\ [][\A t \in Threads :
            (pc[t] \in {"refresh", "setR"} /\ pc'[t] \notin RefreshStages)
                => pc'[t] = "idle" /\ calls'[t] = calls[t] + 1]_vars

C3_Witness ==
    \E t \in Threads :
        /\ pc[t] = "http"
        /\ obs[t].stale # 0
        /\ obs[t].sent[2] > obs[t].stale

\* C4: whenever a reader can look at the TokenState (the lock is free, or a
\* thread is about to build its headers), its three values come from one
\* completed authenticate/refresh.
C4_AtomicTokenState ==
    (ctor = "ready" /\ (lock = NoThread \/ \E t \in Threads : pc[t] = "call"))
        => /\ access_token = refresh_token
           /\ refresh_token = expiry_src

\* C5: a refresh that fails (no usable response, or a data section lacking
\* access_token, refresh_token or expires_in) raises in its caller and
\* leaves access_token, refresh_token and expires_at as they were before.
C5_FailedRefreshKeepsState ==
    [][\A t \in Threads :
        (/\ pc[t] \in RefreshStages
         /\ pc'[t] \notin RefreshStages
         /\ \/ pc'[t] = "idle"
            \/ "expires_in" \notin DOMAIN resp[t])
            => /\ pc'[t] = "idle"
               /\ <<access_token', refresh_token', token_expiry'>> = pre]_vars

\* C6: construction makes at most AUTH_RETRIES attempts, returns at the
\* first that succeeds with the TokenState of that response, makes no
\* attempt after it, and fails only when attempt AUTH_RETRIES has failed.
C6_BoundedAuthRetries ==
    /\ [](attempt <= AUTH_RETRIES)
    /\ [][/\ (ctor = "setE" /\ ctor' # "setE") =>
                /\ ctor' = "ready"
                /\ access_token' = ctor_resp["access_token"]
                /\ refresh_token' = ctor_resp["refresh_token"]
                /\ expiry_src' = ctor_resp["access_token"]
          /\ (ctor \in {"ready", "failed"}) => ctor' = ctor
          /\ (ctor # "failed" /\ ctor' = "failed") => attempt = AUTH_RETRIES
          /\ (ctor' = "auth") => attempt' <= AUTH_RETRIES]_vars

C6_Witness ==
    /\ ctor = "ready"
    /\ access_token = 2
    /\ refresh_token = 2
    /\ expiry_src = 2
    /\ issued = 2

\* C7: when construction fails, access_token, refresh_token and expires_at
\* are still at their initial empty values.
C7_NoPartialState ==
    (ctor = "failed") => TokenState = NoTokenState

\* C8: every successful authenticate or refresh at time t sets expires_at to
\* t + expires_in - 10.
C8_ExpirySkew ==
    [][/\ (ctor = "setE" /\ ctor' = "ready")
            => token_expiry' = clock + Get(ctor_resp, "expires_in", 0) - 10
       /\ \A t \in Threads :
            (pc[t] = "setE" /\ pc'[t] # "setE")
                => token_expiry' = clock + Get(resp[t], "expires_in", 0) - 10
      ]_vars

C8_Witness ==
    /\ lock = NoThread
    /\ \E t \in Threads : obs[t].checked /\ obs[t].stale # 0
    /\ token_expiry = clock + MaxExpiresIn - 10

\* C9: a refresh POST is made only when the clock has reached the
\* expires_at in force, so between two refreshes the clock has passed the
\* expires_at set by the earlier one.
C9_RefreshOnlyWhenExpired ==
    [][\A t \in Threads :
        (pc[t] # "refresh" /\ pc'[t] = "refresh") => clock >= token_expiry
      ]_vars

C9_Witness ==
    \E t, u \in Threads :
        /\ pc[t] = "refresh"
        /\ obs[u].fresh = "lost"
        /\ clock >= token_expiry
        /\ expiry_src > 1

\* C10: an accessor issues its HTTP call only after passing the expiry
\* check, and the call carries "Bearer " + the current access_token.
C10_CheckedBeforeCall ==
    /\ [](\A t \in Threads : pc[t] \in {"call", "http"} => obs[t].checked)
    /\ [][\A t \in Threads :
            (pc[t] = "call" /\ pc'[t] = "http")
                => obs'[t].sent = <<"Bearer", access_token>>]_vars

C10_Witness ==
    \E t \in Threads :
        /\ pc[t] = "http"
        /\ obs[t].checked
        /\ obs[t].sent = <<"Bearer", access_token>>

\* C15: the lock is held only by a thread inside the check-and-refresh
\* sequence, never by a thread whose wrapped function is running or whose
\* HTTP call is in flight; two calls made with a fresh token can have their
\* HTTP calls in flight together.
C15_LockOnlyDuringRefresh ==
    /\ \A t \in Threads : pc[t] \in {"call", "http"} => lock # t
    /\ lock # NoThread => pc[lock] \in {"refresh", "setR", "setE"}

C15_Witness ==
    \E t, u \in Threads :
        /\ t # u
        /\ pc[t] = "http" /\ pc[u] = "http"
        /\ ~obs[t].startExpired /\ ~obs[u].startExpired
        /\ obs[t].posts = 0 /\ obs[u].posts = 0
        /\ clock < token_expiry

\* C17: the sleep that precedes authentication attempt k+1 lasts
\* 0.5 * 2^(k-1) seconds: 0.5, 1, 2 and 4 seconds before attempts 2 to 5.
C17_BackoffDoubles ==
    [][(attempt' = attempt + 1) =>
         /\ attempt \in 1..4
         /\ backoff' = CASE attempt = 1 -> 500
                         [] attempt = 2 -> 1000
                         [] attempt = 3 -> 2000
                         [] attempt = 4 -> 4000]_vars

C17_Witness ==
    /\ ctor = "auth"
    /\ attempt = 5
    /\ backoff = 4000

\* C11: a network call makes at most REQUEST_RETRIES + 1 = 4 HTTP attempts,
\* however long the transport keeps failing with a retryable status, and
\* the failure then reaches the caller.
C11_BoundedAttempts ==
    /\ http_pc # "idle" => attempts \in 1..4
    /\ (http_pc = "sent" /\ attempts = 4 /\ reply # NoReply /\ reply # Silent)
            => ENABLED Finish

C11_Witness ==
    /\ http_pc = "done"
    /\ accessor \in ResourceAccessors
    /\ attempts = 4
    /\ reply.kind = "http" /\ reply.status = 503
    /\ outcome.kind = "raise"

\* the failures called transient: a network error, a timeout, or one
\* of the statuses 502/503/504
Transient(r) ==
    \/ r.kind \in {"error", "silent"}
    \/ r.kind = "http" /\ r.status \in {502, 503, 504}

\* C12: whatever the accessor, a resource call that ended on a transient
\* failure (network error, timeout, 502/503/504) had been retried
\* REQUEST_RETRIES times, that is, had made REQUEST_RETRIES + 1 attempts.
C12_EveryAccessorRetries ==
    (http_pc = "done" /\ accessor \in ResourceAccessors /\ Transient(reply))
        => attempts = REQUEST_RETRIES + 1

\* C13: whatever the accessor and the HTTP status, a resource call whose
\* decoded body has code # 0 raises the application error that carries the
\* upstream msg, after a single attempt, and returns nothing.
C13_NonZeroCodeRaises ==
    (/\ http_pc = "done"
     /\ accessor \in ResourceAccessors
     /\ reply.kind = "http"
     /\ reply.json
     /\ reply.body.code # 0)
        => /\ outcome = [kind |-> "raise", error |-> "RuntimeError",
                         detail |-> reply.body.msg]
           /\ attempts = 1

\* C14: a resource call that returns, returns the data section of the
\* decoded body, never the whole envelope.
C14_ReturnsDataSection ==
    (http_pc = "done" /\ accessor \in ResourceAccessors
                      /\ outcome.kind = "return")
        => outcome.value = reply.body.data

\* C16: every network call in flight carries a timeout, so that no call
\* waits without limit on a server that never answers.
C16_EveryCallTimesOut ==
    (http_pc = "sent" /\ accessor \in NetworkCalls)
        => HowCalled(accessor).timeout > 0

\* C18: in the daily-report script a row whose key the sink holds already
\* is skipped: the conflict is caught, skipped grows by one, inserted stays,
\* the script goes on with the next row; at every moment, and so at the end
\* of the run, inserted + skipped is the number of rows processed.
C18_ConflictIsSkipped ==
    /\ [](wf = "daily_report" => counts.inserted + counts.skipped = idx)
    /\ []((wf = "daily_report" /\ wf_pc = "done") => idx = total)
    /\ [][(wf = "daily_report" /\ wf_pc = "rows" /\ Head(rows) \in sink)
            => /\ counts'.skipped = counts.skipped + 1
               /\ counts'.inserted = counts.inserted
               /\ idx' = idx + 1
               /\ wf_pc' \in {"rows", "page"}
               /\ exit_code' = exit_code]_vars

C18_Witness ==
    /\ wf = "daily_report"
    /\ wf_pc = "done"
    /\ total = 3
    /\ conflicts = 1
    /\ counts.skipped = 1
    /\ counts.inserted = 2
    /\ sink = {1, 2, 3}

\* the stages in which a script works through its items: rows, plants,
\* chunks
ItemStages == {"rows", "fetch", "insert", "items"}

\* C19: in every workflow a failure on one item (the fetch for one plant,
\* the insert of one row or chunk) is caught and the remaining items are
\* processed: no script is ended by an exception while it works through
\* its items.
C19_ItemFailureNeverAborts ==
    [][(wf_pc \in ItemStages) => (wf_pc' # "aborted")]_vars

\* C20: update_plant_inverters run with --quiet or --ignore-failures exits
\* with status 0 whatever failed; run without, it exits with status 1 when
\* a failure was counted.
C20_QuietAlwaysExitsZero ==
    (wf = "plant_inverters" /\ exit_code # NoExit)
        => IF quiet THEN exit_code = 0
                    ELSE (counts.failed > 0 => exit_code = 1)

\* C27: the lock is free whenever no thread is between the refresh POST and
\* the expiry assignment, also after a refresh that raised; a thread that
\* waits for the lock gets past it; and when a refresh has raised the token
\* is as expired as it was, so that the next caller refreshes again.
C27_LockFreedAfterFailure ==
    /\ [](/\ (\A t \in Threads : pc[t] \notin {"refresh", "setR", "setE"})
                => lock = NoThread
          /\ \A u \in Threads :
                (pc[u] = "lock" /\ lock = NoThread
                    /\ TokenExpired(clock, token_expiry))
                    => (ENABLED EnsureExpired(u)) /\ ~(ENABLED EnsureFresh(u)))
    /\ [][\A t \in Threads :
            (pc[t] \in {"refresh", "setR"} /\ pc'[t] = "idle")
                => /\ lock' = NoThread
                   /\ token_expiry' = token_expiry
                   /\ TokenExpired(clock', token_expiry')]_vars
    /\ \A t \in Threads : (pc[t] = "lock") ~> (pc[t] # "lock")

C27_Witness ==
    \E t, u \in Threads :
        /\ t # u
        /\ pc[t] = "refresh"
        /\ obs[t].failed
        /\ obs[t].posts = 2
        /\ obs[u].live = FALSE
        /\ calls[u] = 1

\* C28: a thread never waits for the lock while holding it: the wrapper of
\* energy has left its with block when the wrapper of _request asks for the
\* lock, and the nested check is passed, whatever the other threads do.
C28_NestedWrapperPasses ==
    /\ [](\A t \in Threads : pc[t] = "lock" => lock # t)
    /\ \A t \in Threads :
        (pc[t] = "lock" /\ depth[t] = 1 /\ obs[t].checked)
            ~> (pc[t] \in {"call", "idle"})

C28_Witness ==
    \E t, u \in Threads :
        /\ t # u
        /\ pc[t] = "lock" /\ depth[t] = 1 /\ obs[t].checked
        /\ pc[u] = "refresh"

\* C21: upsert_inverter returns 'inserted' exactly when its INSERT went
\* through, 'updated' exactly when the INSERT met a duplicate key and the
\* UPDATE went through, 'failed' otherwise; the UPDATE is sent only after a
\* duplicate key, never after another INSERT error.
C21_InsertThenUpdateOnDuplicate ==
    upsert # NoUpsert =>
        /\ upsert.result \in {"inserted", "updated", "failed"}
        /\ (upsert.result = "inserted") <=> (upsert.ins = "ok")
        /\ (upsert.result = "updated")
                <=> (upsert.ins = "duplicate" /\ upsert.upd = "ok")
        /\ (upsert.updates = 1) <=> (upsert.ins = "duplicate")
        /\ upsert.updates \in {0, 1}
        /\ (upsert.ins = "error") => (upsert.updates = 0)

C21_Witness ==
    /\ upsert # NoUpsert
    /\ upsert.result = "updated"
    /\ counts.updated = 1
    /\ counts.failed = 1

\* C23: no fetch of the plant loop starts with a client constructed more
\* than REAUTH_INTERVAL seconds earlier: a client that old is replaced at
\* the start of the pass.
C23_NoFetchWithOldClient == fetch_age <= REAUTH_INTERVAL

\* C22: _insert_chunk never raises because of a duplicate key (it raises
\* only where an insert fails for another reason); when it returns, every
\* row of the chunk is in the table, the rows that were there before
\* untouched, and the count returned is the number of rows the call added;
\* an empty chunk returns 0 and sends nothing to Supabase.
C22_DuplicatesSkippedAndCounted ==
    (fn = "_insert_chunk" /\ ret # NoRet) =>
        /\ (ret.kind = "raise") <=> (arg.fault # NoFault /\ arg.rows # <<>>
                /\ (arg.fault > 0 => BulkConflicts(arg.rows, ret.before)))
        /\ ret.before \subseteq sink
        /\ sink \subseteq ret.before \cup Range(arg.rows)
        /\ (ret.kind = "return") =>
                /\ sink = ret.before \cup Range(arg.rows)
                /\ ret.count = Cardinality(sink \ ret.before)
        /\ (arg.rows = <<>>) =>
                /\ ret.kind = "return"
                /\ ret.count = 0
                /\ ret.inserts = 0
                /\ ret.refreshes = 0

C22_Witness ==
    /\ fn = "_insert_chunk"
    /\ ret # NoRet
    /\ ret.kind = "return"
    /\ Len(arg.rows) = 2
    /\ ret.count = 1
    /\ ret.inserts = 3

\* C24: _maybe_refresh_supabase calls refresh_session exactly when there is
\* a session and at least REAUTH_INTERVAL seconds have passed since
\* supabase_last_refresh; a refresh that goes through sets
\* supabase_last_refresh to now, one that fails leaves it, and nothing is
\* raised to the caller.
C24_RefreshWhenDue ==
    (fn = "_maybe_refresh_supabase" /\ ret # NoRet) =>
        /\ ret.refreshes \in {0, 1}
        /\ (ret.refreshes = 1)
                <=> (session /\ wf_now - ret.before >= REAUTH_INTERVAL)
        /\ supabase_last_refresh =
                IF ret.refreshes = 1 /\ arg.refresh_ok THEN wf_now
                                                       ELSE ret.before
        /\ ret.kind = "return"

C24_Witness ==
    /\ fn = "_maybe_refresh_supabase"
    /\ ret # NoRet
    /\ ret.refreshes = 1
    /\ wf_now - ret.before = REAUTH_INTERVAL
    /\ supabase_last_refresh = wf_now

\* 27 followed by exactly nine digits
IsSaMsisdn(str) ==
    /\ Len(str) = 11
    /\ SubSeq(str, 1, 2) = <<"2", "7">>
    /\ \A i \in DOMAIN str : str[i] \in Digits

\* C25: send_sms and send_whatsapp post a message only to 27 followed by
\* exactly nine digits; for every other phone number they raise
\* RuntimeError and post nothing.
C25_OnlyElevenDigitNumbers ==
    (fn \in {"send_sms", "send_whatsapp"} /\ ret # NoRet) =>
        IF ret.posted THEN IsSaMsisdn(ret.to)
        ELSE ret.kind = "raise" /\ ret.error = "RuntimeError"

\* C26: _retry_call(func, retries=n) calls func at most n+1 times; it
\* returns the result of the first call that succeeds and calls no more;
\* if n+1 calls raise it raises the exception of the last; after the k-th
\* failure, k <= n, it sleeps backoff^k seconds.
C26_BoundedRetries ==
    (fn = "_retry_call" /\ ret # NoRet) =>
        LET n == arg.retries
            failed(i) == ~arg.outcomes[i]
        IN /\ ret.calls \in 1..(n + 1)
           /\ \A i \in 1..(ret.calls - 1) : failed(i)
           /\ (ret.kind = "return") <=> (\E i \in 1..(n + 1) : ~failed(i))
           /\ (ret.kind = "return")
                => (~failed(ret.calls) /\ ret.value = ret.calls)
           /\ (ret.kind = "raise")
                => (ret.calls = n + 1 /\ ret.error = n + 1)
           /\ Len(ret.sleeps) = ret.calls - 1
           /\ \A k \in DOMAIN ret.sleeps :
                /\ k <= n
                /\ ret.sleeps[k].num * Pow(arg.backoff.den, k)
                        = Pow(arg.backoff.num, k) * ret.sleeps[k].den

C26_Witness ==
    /\ fn = "_retry_call"
    /\ ret # NoRet
    /\ ret.kind = "raise"
    /\ arg.retries = 3
    /\ ret.calls = 4
    /\ ret.sleeps[3] = [num |-> 27, den |-> 8]

====
